---- MODULE Spec2Model ----
(***************************************************************************)
(* Model of backend/marigold_server.py: the POST /marigold-normals handler *)
(* (image fetch, lazy pipeline singleton, inference call, output          *)
(* selection, response) run by concurrent worker threads, and the          *)
(* normalisation of a raw prediction array into an 8-bit image.            *)
(***************************************************************************)
EXTENDS Integers, Sequences, FiniteSets, TLC

\* ------------------------------------------------------------------ bounds

\* Number of requests (worker threads) of one process run.
NumRequests == 2
\* Largest height and width of a prediction array.
MaxH == 3
MaxW == 3
\* Values are fixed-point numbers: the integer x stands for the real x / Unit.
Unit == 10
\* Largest finite value of the array's float type, in the same units; a finite
\* result beyond it overflows to an infinity as in IEEE 754.
FloatMax == 12

\* ------------------------------------------------------- program constants

\* MarigoldRequest.num_inference_steps: Optional[int] = 30
DefaultSteps == 30
\* max(req.num_inference_steps or 20, 20): the value used for a falsy count
FallbackSteps == 20
\* max(req.num_inference_steps or 20, 20): the floor
MinSteps == 20

VARIABLES
  \* --- the server
  PIPELINE,     \* the module global _PIPELINE: NULL or a pipeline instance
  pc,           \* pc[r]: where request r's handler is
  pipe,         \* pipe[r]: the handler's local `pipe`
  resp,         \* resp[r]: the response sent for r (NoResp until sent)
  stages,       \* stages[r]: the stages r ran, each with its outcome
  reqSteps,     \* reqSteps[r]: num_inference_steps of r's JSON body, as read
  pipeArgs,     \* pipeArgs[r]: the arguments of each pipe(...) call r made
  loadCalls,    \* loadCalls[r]: how many times r called _load_pipeline
  inits,        \* how many times from_pretrained was called
  writes,       \* how many times _PIPELINE was assigned
  \* --- the normalisation of one prediction
  pred,         \* result.prediction[0] as delivered by the pipeline
  layout,       \* how the pipeline laid the values out: "HWC" or "CHW"
  out,          \* the uint8 array handed to Image.fromarray
  npc,          \* "idle" | "raw" | "done"
  nan_cast      \* what this build's float -> uint8 cast yields for NaN

srvVars == <<PIPELINE, pc, pipe, resp, stages, reqSteps, pipeArgs, loadCalls,
             inits, writes>>
normVars == <<pred, layout, out, npc, nan_cast>>
vars == <<PIPELINE, pc, pipe, resp, stages, reqSteps, pipeArgs, loadCalls,
          inits, writes, pred, layout, out, npc, nan_cast>>

Req == 1..NumRequests
\* _PIPELINE = None, and the instance that request r's from_pretrained made
NULL == [obj |-> "None", id |-> 0]
Instance(r) == [obj |-> "MarigoldNormalsPipeline", id |-> r]
\* No response sent yet.
NoResp == [status |-> 0, body |-> [detail |-> ""]]

\* ---------------------------------------------------------- float values
\* A float is NaN, an infinity, or the finite rational n / d (d > 0).

Fin(n, d) == [k |-> "fin", n |-> n, d |-> d]
NaN == [k |-> "nan", n |-> 0, d |-> 1]
PInf == [k |-> "pinf", n |-> 1, d |-> 1]
NInf == [k |-> "ninf", n |-> -1, d |-> 1]
\* A raw array element of x units.
Raw(x) == Fin(x, Unit)

IsNaN(a) == a.k = "nan"
IsFinite(a) == a.k = "fin"

\* a < b as IEEE compares: false when either side is NaN.
FLt(a, b) ==
  CASE IsNaN(a) \/ IsNaN(b) -> FALSE
    [] a.k = "ninf" -> b.k # "ninf"
    [] a.k = "pinf" -> FALSE
    [] b.k = "ninf" -> FALSE
    [] b.k = "pinf" -> TRUE
    [] OTHER -> a.n * b.d < b.n * a.d

FLeq(a, b) == ~IsNaN(a) /\ ~IsNaN(b) /\ ~FLt(b, a)

\* A finite result rounded into the float type: beyond FloatMax it overflows.
Rounded(n, d) ==
  IF n * Unit > FloatMax * d THEN PInf
  ELSE IF n * Unit < -(FloatMax * d) THEN NInf
  ELSE Fin(n, d)

\* a - b
FSub(a, b) ==
  CASE IsNaN(a) \/ IsNaN(b) -> NaN
    [] a.k = "pinf" -> IF b.k = "pinf" THEN NaN ELSE PInf
    [] a.k = "ninf" -> IF b.k = "ninf" THEN NaN ELSE NInf
    [] b.k = "pinf" -> NInf
    [] b.k = "ninf" -> PInf
    [] OTHER -> Rounded(a.n * b.d - b.n * a.d, a.d * b.d)

\* a / b for b > 0 (the only divisor the handler uses is a span > 0.1)
FDiv(a, b) ==
  CASE IsNaN(a) \/ IsNaN(b) -> NaN
    [] b.k = "pinf" -> IF IsFinite(a) THEN Fin(0, 1) ELSE NaN
    [] a.k = "pinf" -> PInf
    [] a.k = "ninf" -> NInf
    [] OTHER -> Fin(a.n * b.d, a.d * b.n)

\* a * b for finite factors of magnitude <= 1
FMul(a, b) == Fin(a.n * b.n, a.d * b.d)

\* ----------------------------------------------------------------- arrays
\* A numpy array of three axes: its shape and its elements, indexed from 1.

Idx(shape) == (1..shape[1]) \X (1..shape[2]) \X (1..shape[3])
Elems(p) == {p.data[ix] : ix \in Idx(p.shape)}

\* np.transpose(pred, (1, 2, 0))
Transpose120(p) ==
  LET shape == <<p.shape[2], p.shape[3], p.shape[1]>>
  IN [shape |-> shape,
      data |-> [ix \in Idx(shape) |-> p.data[<<ix[3], ix[1], ix[2]>>]]]

\* Mutant of AxisCorrection: the axes are reversed, np.transpose(pred, (2, 1, 0)).
AxisCorrection_reversed(p) ==
  IF Len(p.shape) = 3 /\ p.shape[1] = 3
  THEN LET shape == <<p.shape[3], p.shape[2], p.shape[1]>>
       IN [shape |-> shape,
           data |-> [ix \in Idx(shape) |-> p.data[<<ix[3], ix[2], ix[1]>>]]]
  ELSE p

\* if pred.ndim == 3 and pred.shape[0] == 3: pred = np.transpose(...)
AxisCorrection(p) ==
  IF Len(p.shape) = 3 /\ p.shape[1] = 3 THEN Transpose120(p) ELSE p

\* np.isnan(pred).any()
HasNaN(p) == \E v \in Elems(p) : IsNaN(v)

\* Mutant of nan_to_num: NaN is replaced by 1.0.
nan_to_num_one(v) ==
  CASE v.k = "nan" -> Raw(Unit)
    [] v.k = "pinf" -> Raw(FloatMax)
    [] v.k = "ninf" -> Raw(-FloatMax)
    [] OTHER -> v

\* np.nan_to_num(x, nan=0.0): NaN becomes 0.0, and (posinf and neginf left at
\* their defaults) each infinity becomes the largest finite value of its sign.
nan_to_num(v) ==
  CASE v.k = "nan" -> Raw(0)
    [] v.k = "pinf" -> Raw(FloatMax)
    [] v.k = "ninf" -> Raw(-FloatMax)
    [] OTHER -> v

Sanitize(p) ==
  IF HasNaN(p)
  THEN [shape |-> p.shape,
        data |-> [ix \in Idx(p.shape) |-> nan_to_num(p.data[ix])]]
  ELSE p

\* pred.min(), pred.max(): NaN if any element is NaN
ArrMin(p) ==
  IF HasNaN(p) THEN NaN
  ELSE CHOOSE m \in Elems(p) : \A v \in Elems(p) : FLeq(m, v)
ArrMax(p) ==
  IF HasNaN(p) THEN NaN
  ELSE CHOOSE m \in Elems(p) : \A v \in Elems(p) : FLeq(v, m)

RangeSpan(p) == FSub(ArrMax(p), ArrMin(p))

\* range_span > 0.1
SpanThreshold == Fin(1, 10)
HasContrast(span) == FLt(SpanThreshold, span)

\* Mutant of Rescale: the minimum is not subtracted, pred / range_span.
Rescale_noOffset(p) ==
  LET range_span == RangeSpan(p)
  IN [shape |-> p.shape,
      data |-> [ix \in Idx(p.shape) |-> FDiv(p.data[ix], range_span)]]

\* pred = (pred - p_min) / range_span
Rescale(p) ==
  LET p_min == ArrMin(p)
      range_span == RangeSpan(p)
  IN [shape |-> p.shape,
      data |-> [ix \in Idx(p.shape) |->
                  FDiv(FSub(p.data[ix], p_min), range_span)]]

\* pred = np.ones_like(pred) * np.array([0.5, 0.5, 1.0])
FlatColor == <<Fin(1, 2), Fin(1, 2), Fin(1, 1)>>
Flat(p) ==
  [shape |-> p.shape,
   data |-> [ix \in Idx(p.shape) |-> FMul(Fin(1, 1), FlatColor[ix[3]])]]

\* np.clip(v, 0.0, 1.0): NaN stays NaN
Clip(v) ==
  CASE IsNaN(v) -> NaN
    [] FLt(v, Fin(0, 1)) -> Fin(0, 1)
    [] FLt(Fin(1, 1), v) -> Fin(1, 1)
    [] OTHER -> v

\* (v * 255).astype(np.uint8) for a clipped v: truncation; the cast of NaN is
\* undefined and yields whatever this build yields.
ToUint8(v) == IF IsNaN(v) THEN nan_cast ELSE (255 * v.n) \div v.d

\* What casting NaN to uint8 may yield (the C conversion is undefined).
CastOfNaN == {0, 255}

\* Lines 148-175: the uint8 array made from result.prediction[0].
NormalizeStage(p) ==
  LET a == AxisCorrection(p)
      s == Sanitize(a)
      n == IF HasContrast(RangeSpan(s)) THEN Rescale(s) ELSE Flat(s)
  IN [shape |-> n.shape,
      data |-> [ix \in Idx(n.shape) |-> ToUint8(Clip(n.data[ix]))]]

\* ------------------------------------------------------------- the server

\* num_inference_steps of a JSON body: absent, null, or an integer.
StepsOmitted == [given |-> "omitted", n |-> 0]
StepsNull == [given |-> "null", n |-> 0]
StepsInt(n) == [given |-> "int", n |-> n]
StepsUnread == [given |-> "unread", n |-> 0]
BodySteps == {StepsOmitted, StepsNull} \cup {StepsInt(n) : n \in {-5, 0, 5, 50}}

\* MarigoldRequest: an absent field takes the declared default, null stays None.
ParseSteps(raw) == IF raw.given = "omitted" THEN StepsInt(DefaultSteps) ELSE raw

\* Mutant of EffectiveSteps: the floor is not applied.
EffectiveSteps_noFloor(field) ==
  IF field.given = "null" \/ field.n = 0 THEN FallbackSteps ELSE field.n

\* steps = max(req.num_inference_steps or 20, 20)
EffectiveSteps(field) ==
  LET requested == IF field.given = "null" \/ field.n = 0
                   THEN FallbackSteps ELSE field.n
  IN IF requested > MinSteps THEN requested ELSE MinSteps

\* The image references a body may carry.
ImageUrls == {"data:image/png;base64,<png>", "data:image/png;base64,<junk>",
              "data:image/png", "http://host/a.png", "ftp-no-scheme"}
\* _fetch_image_from_url: whether it returns an image (net_ok: the HTTP fetch
\* succeeded and its body decoded as an image).
FetchSucceeds(url, net_ok) ==
  CASE url = "data:image/png;base64,<png>" -> TRUE
    [] url = "data:image/png;base64,<junk>" -> FALSE
    [] url = "data:image/png" -> FALSE
    [] url = "http://host/a.png" -> net_ok
    [] OTHER -> FALSE

\* HTTPException(status_code, detail), detail being the message without the
\* exception text appended to it.
HTTPException(status, detail) == [status |-> status, body |-> [detail |-> detail]]
\* Mutant of FetchError: a fetch failure reported as a server fault.
FetchError_asServerFault == HTTPException(500, "Failed to load/parse image: ")
FetchError == HTTPException(400, "Failed to load/parse image: ")
LoadError == HTTPException(500, "Failed to load model: ")
InferenceError == HTTPException(500, "Model inference failed: ")
NoOutputError == HTTPException(500, "Model returned no images or prediction")

\* f"data:image/png;base64,{b64}" of the PNG of img (PNG and base64 are lossless)
DataUrl(img) == [prefix |-> "data:image/png;base64,", b64png |-> img]
\* MarigoldResponse(normal_map_base64=data_url)
MarigoldResponse(img) == [status |-> 200, body |-> [normal_map_base64 |-> DataUrl(img)]]

\* What pipe(...) may return: an output with a prediction batch, an output with
\* only a finished-image list (possibly empty), or one with neither.
ServedPreds ==
  {[shape |-> <<1, 1, 3>>, data |-> [ix \in Idx(<<1, 1, 3>>) |-> Raw(ix[3] - 2)]]}
FinishedImage == [shape |-> <<1, 1, 3>>, data |-> [ix \in Idx(<<1, 1, 3>>) |-> 7]]
Results ==
  {[has_prediction |-> TRUE, prediction |-> <<p>>, images |-> <<>>] : p \in ServedPreds}
  \cup {[has_prediction |-> FALSE, prediction |-> <<>>, images |-> imgs] :
          imgs \in {<<>>, <<FinishedImage>>}}

\* req.seed is None, or an integer from which torch.Generator(...).manual_seed
\* makes a generator or raises.
GeneratorCases ==
  {[has_seed |-> FALSE, generator_ok |-> TRUE],
   [has_seed |-> TRUE, generator_ok |-> TRUE],
   [has_seed |-> TRUE, generator_ok |-> FALSE]}

\* The bodies and pipeline outcomes a request is run with. The outcome of
\* pipe(...) does not depend on the step count, so the two vary one at a time.
InferenceCases ==
  {[steps |-> raw, raised |-> FALSE, result |-> res] :
     raw \in BodySteps, res \in {x \in Results : x.has_prediction}}
  \cup {[steps |-> StepsOmitted, raised |-> b, result |-> res] :
          b \in BOOLEAN, res \in Results}

\* Lines 144-181: the image chosen from a result, as a sequence of at most one.
SelectOutput(result) ==
  IF result.has_prediction THEN <<NormalizeStage(result.prediction[1])>>
  ELSE IF result.images # <<>> THEN <<result.images[1]>>
  ELSE <<>>

\* Lines 144-190: the response for a result.
Respond(result) ==
  IF SelectOutput(result) = <<>> THEN NoOutputError
  ELSE MarigoldResponse(SelectOutput(result)[1])

Finish(r, stage, outcome, response) ==
  /\ stages' = [stages EXCEPT ![r] = Append(@, <<stage, outcome>>)]
  /\ resp' = [resp EXCEPT ![r] = response]
  /\ pc' = [pc EXCEPT ![r] = "done"]

\* Mutant of FetchImage: the pipeline is loaded before the image is fetched.
FetchImage_loadsFirst(r) ==
  /\ pc[r] = "fetch"
  /\ loadCalls' = [loadCalls EXCEPT ![r] = @ + 1]
  /\ \E url \in ImageUrls, net_ok \in BOOLEAN :
       IF FetchSucceeds(url, net_ok)
       THEN /\ stages' = [stages EXCEPT ![r] = Append(@, <<"fetch", "ok">>)]
            /\ pc' = [pc EXCEPT ![r] = "load"]
            /\ resp' = resp
       ELSE Finish(r, "fetch", "fail", FetchError)
  /\ UNCHANGED <<PIPELINE, pipe, reqSteps, pipeArgs, inits, writes>>
  /\ UNCHANGED normVars

\* Line 118: img = _fetch_image_from_url(req.image_url)
FetchImage(r) ==
  /\ pc[r] = "fetch"
  /\ \E url \in ImageUrls, net_ok \in BOOLEAN :
       IF FetchSucceeds(url, net_ok)
       THEN /\ stages' = [stages EXCEPT ![r] = Append(@, <<"fetch", "ok">>)]
            /\ pc' = [pc EXCEPT ![r] = "load"]
            /\ resp' = resp
       ELSE Finish(r, "fetch", "fail", FetchError)
  /\ UNCHANGED <<PIPELINE, pipe, reqSteps, pipeArgs, loadCalls, inits, writes>>
  /\ UNCHANGED normVars

\* Lines 121, 75-76: _load_pipeline() is entered and reads _PIPELINE.
LoadCheck(r) ==
  /\ pc[r] = "load"
  /\ loadCalls' = [loadCalls EXCEPT ![r] = @ + 1]
  /\ IF PIPELINE # NULL
     THEN /\ pipe' = [pipe EXCEPT ![r] = PIPELINE]
          /\ stages' = [stages EXCEPT ![r] = Append(@, <<"load", "ok">>)]
          /\ pc' = [pc EXCEPT ![r] = "infer"]
     ELSE /\ pc' = [pc EXCEPT ![r] = "from_pretrained"]
          /\ UNCHANGED <<pipe, stages>>
  /\ UNCHANGED <<PIPELINE, resp, reqSteps, pipeArgs, inits, writes>>
  /\ UNCHANGED normVars

\* Mutant of FromPretrained: _PIPELINE is assigned before the device move.
FromPretrained_cachesEarly(r) ==
  /\ pc[r] = "from_pretrained"
  /\ inits' = inits + 1
  /\ \E ok \in BOOLEAN :
       IF ok
       THEN /\ pc' = [pc EXCEPT ![r] = "to_device"]
            /\ PIPELINE' = Instance(r)
            /\ UNCHANGED <<stages, resp>>
       ELSE /\ Finish(r, "load", "fail", LoadError)
            /\ UNCHANGED PIPELINE
  /\ UNCHANGED <<pipe, reqSteps, pipeArgs, loadCalls, writes>>
  /\ UNCHANGED normVars

\* Lines 79-83 (and 87-89, 122-123 when it raises): from_pretrained
FromPretrained(r) ==
  /\ pc[r] = "from_pretrained"
  /\ inits' = inits + 1
  /\ \E ok \in BOOLEAN :
       IF ok
       THEN /\ pc' = [pc EXCEPT ![r] = "to_device"]
            /\ UNCHANGED <<stages, resp>>
       ELSE Finish(r, "load", "fail", LoadError)
  /\ UNCHANGED <<PIPELINE, pipe, reqSteps, pipeArgs, loadCalls, writes>>
  /\ UNCHANGED normVars

\* Lines 84-85 (and 87-89, 122-123 when it raises): pipe.to(device), then the
\* assignment of _PIPELINE.
ToDevice(r) ==
  /\ pc[r] = "to_device"
  /\ \E ok \in BOOLEAN :
       IF ok
       THEN /\ PIPELINE' = Instance(r)
            /\ writes' = writes + 1
            /\ pc' = [pc EXCEPT ![r] = "load_return"]
            /\ UNCHANGED <<stages, resp>>
       ELSE /\ Finish(r, "load", "fail", LoadError)
            /\ UNCHANGED <<PIPELINE, writes>>
  /\ UNCHANGED <<pipe, reqSteps, pipeArgs, loadCalls, inits>>
  /\ UNCHANGED normVars

\* Line 86: return _PIPELINE (the global is read again)
LoadReturn(r) ==
  /\ pc[r] = "load_return"
  /\ pipe' = [pipe EXCEPT ![r] = PIPELINE]
  /\ stages' = [stages EXCEPT ![r] = Append(@, <<"load", "ok">>)]
  /\ pc' = [pc EXCEPT ![r] = "infer"]
  /\ UNCHANGED <<PIPELINE, resp, reqSteps, pipeArgs, loadCalls, inits, writes>>
  /\ UNCHANGED normVars

\* Lines 125-190: the generator, the step count, the pipeline call, the choice
\* of the output image and the response.
RunInference(r) ==
  /\ pc[r] = "infer"
  /\ \E g \in GeneratorCases, c \in InferenceCases :
      LET has_seed == g.has_seed
          generator_ok == g.generator_ok
          raw == c.steps
          raised == c.raised
          result == c.result
      IN
       IF has_seed /\ ~generator_ok
       THEN /\ Finish(r, "inference", "fail", InferenceError)
            /\ UNCHANGED <<reqSteps, pipeArgs>>
       ELSE /\ reqSteps' = [reqSteps EXCEPT ![r] = raw]
            /\ pipeArgs' = [pipeArgs EXCEPT ![r] = Append(@,
                 [pipe |-> pipe[r],
                  num_inference_steps |-> EffectiveSteps(ParseSteps(raw))])]
            /\ IF raised
               THEN Finish(r, "inference", "fail", InferenceError)
               ELSE /\ stages' = [stages EXCEPT ![r] =
                         @ \o << <<"inference", "ok">>,
                                 <<"output", IF SelectOutput(result) = <<>>
                                             THEN "fail" ELSE "ok">> >>]
                    /\ resp' = [resp EXCEPT ![r] = Respond(result)]
                    /\ pc' = [pc EXCEPT ![r] = "done"]
  /\ UNCHANGED <<PIPELINE, pipe, loadCalls, inits, writes>>
  /\ UNCHANGED normVars

Init ==
  /\ PIPELINE = NULL
  /\ pc = [r \in Req |-> "fetch"]
  /\ pipe = [r \in Req |-> NULL]
  /\ resp = [r \in Req |-> NoResp]
  /\ stages = [r \in Req |-> <<>>]
  /\ reqSteps = [r \in Req |-> StepsUnread]
  /\ pipeArgs = [r \in Req |-> <<>>]
  /\ loadCalls = [r \in Req |-> 0]
  /\ inits = 0
  /\ writes = 0
  /\ pred = [shape |-> <<1, 1, 3>>, data |-> [ix \in Idx(<<1, 1, 3>>) |-> Raw(0)]]
  /\ layout = "HWC"
  /\ out = [shape |-> <<1, 1, 3>>, data |-> [ix \in Idx(<<1, 1, 3>>) |-> 0]]
  /\ npc = "idle"
  /\ nan_cast = 0

Next ==
  \E r \in Req :
    \/ FetchImage(r)
    \/ LoadCheck(r)
    \/ FromPretrained(r)
    \/ ToDevice(r)
    \/ LoadReturn(r)
    \/ RunInference(r)

Spec == Init /\ [][Next]_vars

\* ---------------------------------------- normalisation of one prediction

\* The values an element of a prediction is drawn from.
FiniteVals == {Raw(x) : x \in {-FloatMax, -1, 0, 1, 2, Unit \div 2, FloatMax}}
SampleVals == FiniteVals \cup {NaN, PInf, NInf}
BaseVals == {Raw(0), Raw(Unit \div 2)}
SecondVals == {Raw(0), Raw(Unit \div 2), Raw(FloatMax), NaN, PInf, NInf}

\* The image of height h and width w that is b everywhere but for v1 at the
\* p-th element (counted row by row, channel last) and v2 at the next one.
Content(h, w, b, p, v1, v2) ==
  [px \in (1..h) \X (1..w) \X (1..3) |->
     LET q == ((px[1] - 1) * w + (px[2] - 1)) * 3 + px[3]
     IN IF q = p THEN v1 ELSE IF q = (p % (h * w * 3)) + 1 THEN v2 ELSE b]

\* The array the pipeline delivers for an image: (H, W, 3), or (3, H, W).
Delivered(lay, h, w, img) ==
  IF lay = "HWC"
  THEN [shape |-> <<h, w, 3>>, data |-> [ix \in Idx(<<h, w, 3>>) |-> img[ix]]]
  ELSE [shape |-> <<3, h, w>>,
        data |-> [ix \in Idx(<<3, h, w>>) |-> img[<<ix[2], ix[3], ix[1]>>]]]

NormInit ==
  /\ PIPELINE = NULL
  /\ pc = [r \in Req |-> "done"]
  /\ pipe = [r \in Req |-> NULL]
  /\ resp = [r \in Req |-> NoResp]
  /\ stages = [r \in Req |-> <<>>]
  /\ reqSteps = [r \in Req |-> StepsUnread]
  /\ pipeArgs = [r \in Req |-> <<>>]
  /\ loadCalls = [r \in Req |-> 0]
  /\ inits = 0
  /\ writes = 0
  /\ layout \in {"HWC", "CHW"}
  /\ \E h \in 1..MaxH, w \in 1..MaxW, b \in BaseVals, p \in 1..(MaxH * MaxW * 3),
        v1 \in SampleVals, v2 \in SecondVals :
       /\ p <= h * w * 3
       /\ pred = Delivered(layout, h, w, Content(h, w, b, p, v1, v2))
  /\ out = [shape |-> <<1, 1, 3>>, data |-> [ix \in Idx(<<1, 1, 3>>) |-> 0]]
  /\ npc = "raw"
  /\ nan_cast \in CastOfNaN

\* Lines 148-175 on result.prediction[0]
Normalize ==
  /\ npc = "raw"
  /\ out' = NormalizeStage(pred)
  /\ npc' = "done"
  /\ UNCHANGED <<pred, layout, nan_cast>>
  /\ UNCHANGED srvVars

NormNext == Normalize

SpecNorm == NormInit /\ [][NormNext]_vars

\* ------------------------------------------------------------- properties

Max(a, b) == IF a > b THEN a ELSE b
Called(r) == pipeArgs[r] # <<>>
StepsPassed(r) == pipeArgs[r][1].num_inference_steps

\* C3: whenever the body's num_inference_steps is an integer n (0 and negative
\* values included), the pipeline is called with exactly max(n, 20) steps, and
\* it is never called with fewer than 20.
C3_StepsAreMaxOfRequestAnd20 ==
  \A r \in Req :
    Called(r) =>
      /\ Len(pipeArgs[r]) = 1
      /\ StepsPassed(r) >= 20
      /\ reqSteps[r].given = "int" => StepsPassed(r) = Max(reqSteps[r].n, 20)

C3_Witness ==
  \E r1, r2 \in Req :
    /\ Called(r1) /\ reqSteps[r1] = StepsInt(5) /\ StepsPassed(r1) = 20
    /\ Called(r2) /\ reqSteps[r2] = StepsInt(-5) /\ StepsPassed(r2) = 20

\* C8 (as claimed): a body without a step count, the field absent or null,
\* makes the pipeline run with max(30, 20) = 30 steps.
C8_NoStepCountGives30 ==
  \A r \in Req :
    (Called(r) /\ reqSteps[r].given \in {"omitted", "null"}) => StepsPassed(r) = 30

\* C4: a finished request has exactly one response, set by the first stage that
\* failed in the order fetch, load, inference, output: 400 for the fetch, 500
\* for the others, each with a detail message, and 200 with the single field
\* normal_map_base64, a PNG data URL, when no stage failed. A request that has
\* not finished has no response.
C4_OutcomeByFirstFailure ==
  \A r \in Req :
    LET t == stages[r]
        ok(n) == \A i \in 1..n : t[i] = <<(<<"fetch", "load", "inference", "output">>)[i], "ok">>
        failedAt(n, stage) == Len(t) = n /\ ok(n - 1) /\ t[n] = <<stage, "fail">>
        fault(status) == /\ resp[r].status = status
                         /\ DOMAIN resp[r].body = {"detail"}
                         /\ resp[r].body.detail # ""
    IN IF pc[r] # "done" THEN resp[r] = NoResp
       ELSE \/ failedAt(1, "fetch") /\ fault(400)
            \/ failedAt(2, "load") /\ fault(500)
            \/ failedAt(3, "inference") /\ fault(500)
            \/ failedAt(4, "output") /\ fault(500)
            \/ /\ Len(t) = 4 /\ ok(4)
               /\ resp[r].status = 200
               /\ DOMAIN resp[r].body = {"normal_map_base64"}
               /\ resp[r].body.normal_map_base64.prefix = "data:image/png;base64,"

C4_Witness ==
  \E r1, r2 \in Req :
    /\ pc[r1] = "done" /\ resp[r1] = FetchError
    /\ pc[r2] = "done" /\ resp[r2] = NoOutputError

\* C5: a request whose image cannot be fetched or decoded ends with 400 in the
\* fetch step itself, which leaves _PIPELINE as it is and initialises nothing;
\* a request answered 400 has never called _load_pipeline nor the pipeline.
C5_FetchFailureBeforePipeline ==
  [][\A r \in Req :
       /\ (pc[r] = "fetch" /\ pc'[r] = "done") =>
            /\ resp'[r].status = 400
            /\ PIPELINE' = PIPELINE
            /\ inits' = inits /\ writes' = writes
       /\ resp'[r].status = 400 =>
            /\ loadCalls'[r] = 0
            /\ pipeArgs'[r] = <<>>
            /\ pipe'[r] = NULL]_vars

C5_Witness ==
  \E r1, r2 \in Req :
    /\ pc[r1] = "done" /\ resp[r1].status = 400
    /\ PIPELINE = Instance(r2) /\ pipeArgs[r2] # <<>>

\* C6 (as claimed): whatever the interleaving of first requests, _PIPELINE is
\* assigned at most once and all requests get the same pipeline instance.
C6_AtMostOneInitialization ==
  /\ writes <= 1
  /\ \A r1, r2 \in Req : (pipe[r1] # NULL /\ pipe[r2] # NULL) => pipe[r1] = pipe[r2]

\* C7: _PIPELINE is non-null only if the request that made the instance got
\* through from_pretrained and the device move; a failing _load_pipeline call
\* leaves _PIPELINE as it was, its request gets a 500 after a single call, a
\* call that finds _PIPELINE null initialises, and a call that finds it set
\* returns it without initialising.
C7_CacheOnlyOnSuccess ==
  [][/\ PIPELINE' # NULL =>
          /\ pc'[PIPELINE'.id] \in {"load_return", "infer", "done"}
          /\ \A i \in 1..Len(stages'[PIPELINE'.id]) :
               stages'[PIPELINE'.id][i] # <<"load", "fail">>
     /\ \A r \in Req :
          /\ (pc[r] \in {"from_pretrained", "to_device"} /\ pc'[r] = "done") =>
               /\ PIPELINE' = PIPELINE /\ PIPELINE' # Instance(r)
               /\ resp'[r].status = 500 /\ loadCalls'[r] = 1
               /\ pipeArgs'[r] = <<>>
          /\ (pc[r] = "load" /\ pc'[r] # "load") =>
               IF PIPELINE = NULL
               THEN pc'[r] = "from_pretrained"
               ELSE /\ pc'[r] = "infer" /\ pipe'[r] = PIPELINE
                    /\ inits' = inits /\ PIPELINE' = PIPELINE]_vars

C7_Witness ==
  \E r1, r2 \in Req :
    /\ pc[r1] = "done" /\ resp[r1] = LoadError
    /\ PIPELINE = Instance(r2) /\ pipe[r2] = Instance(r2)
    /\ inits = 2 /\ writes = 1

\* The array min, max and span are computed of.
Sanitized(p) == Sanitize(AxisCorrection(p))
AllFinite(p) == \A v \in Elems(p) : IsFinite(v)

\* C1 (as claimed): a prediction whose span after NaN replacement is <= 0.1
\* gives the pixel (128, 128, 255) everywhere.
C1_LowContrastIs128_128_255 ==
  (npc = "done" /\ FLeq(RangeSpan(Sanitized(pred)), SpanThreshold)) =>
    \A ix \in Idx(out.shape) : out.data[ix] = (<<128, 128, 255>>)[ix[3]]

\* out is an order-preserving map of the sanitised values into 0..255 that
\* sends the minimum to 0 and the maximum to 255.
MonotoneOntoBytes ==
  LET s == Sanitized(pred)
      lo == ArrMin(s)
      hi == ArrMax(s)
      OutOf(v) == {out.data[ix] : ix \in {iy \in Idx(s.shape) : s.data[iy] = v}}
  IN /\ out.shape = s.shape
     /\ \A ix \in Idx(s.shape) : out.data[ix] \in 0..255
     /\ OutOf(lo) = {0}
     /\ OutOf(hi) = {255}
     /\ \A u, v \in Elems(s) :
          FLeq(u, v) => \A a \in OutOf(u), b \in OutOf(v) : a <= b

\* C2 (as claimed): every prediction whose span is > 0.1 is rescaled
\* monotonically into 0..255, minimum to 0 and maximum to 255.
C2_RescaleIsMonotone ==
  (npc = "done" /\ HasContrast(RangeSpan(Sanitized(pred)))) => MonotoneOntoBytes

\* C2 (amended): the same, for predictions whose elements (after NaN
\* replacement) are all finite and whose span is finite and > 0.1.
C2_FiniteRescaleIsMonotone ==
  (/\ npc = "done"
   /\ AllFinite(Sanitized(pred))
   /\ IsFinite(RangeSpan(Sanitized(pred)))
   /\ HasContrast(RangeSpan(Sanitized(pred)))) => MonotoneOntoBytes

C2_Witness ==
  /\ npc = "done"
  /\ AllFinite(Sanitized(pred))
  /\ IsFinite(RangeSpan(Sanitized(pred)))
  /\ HasContrast(RangeSpan(Sanitized(pred)))
  /\ ArrMin(Sanitized(pred)) # Raw(0)
  /\ \E ix, iy, iz \in Idx(out.shape) :
       out.data[ix] = 0 /\ out.data[iy] \in 1..254 /\ out.data[iz] = 255

\* The channel-last array (H, W, 3) holding the values of a channel-first
\* array (3, H, W).
ChannelLastOf(p) ==
  [shape |-> <<p.shape[2], p.shape[3], 3>>,
   data |-> [ix \in Idx(<<p.shape[2], p.shape[3], 3>>) |->
               p.data[<<ix[3], ix[1], ix[2]>>]]]

\* C9 (as claimed): for all H and W, a channel-first array gives the image its
\* channel-last counterpart gives, and a channel-last array is not permuted.
C9_LayoutsAgree ==
  npc = "done" =>
    /\ layout = "CHW" => out = NormalizeStage(ChannelLastOf(pred))
    /\ layout = "HWC" => out.shape = pred.shape

\* C9 (amended): a channel-first array is always permuted to (H, W, 3); for
\* H # 3 it gives the image its channel-last counterpart gives and the
\* channel-last array is not permuted; a channel-last array of height 3 is
\* permuted to (W, 3, 3).
C9_LayoutsAgreeUnlessHeight3 ==
  npc = "done" =>
    /\ layout = "CHW" =>
         /\ out.shape = <<pred.shape[2], pred.shape[3], 3>>
         /\ pred.shape[2] # 3 => out = NormalizeStage(ChannelLastOf(pred))
    /\ layout = "HWC" =>
         IF pred.shape[1] # 3 THEN out.shape = pred.shape
         ELSE out.shape = <<pred.shape[2], 3, 3>>

C9_Witness ==
  /\ npc = "done" /\ layout = "CHW"
  /\ pred.shape = <<3, 2, 3>>
  /\ out = NormalizeStage(ChannelLastOf(pred))
  /\ \E ix, iy \in Idx(out.shape) : out.data[ix] = 0 /\ out.data[iy] = 255

\* The array with each NaN replaced by 0.0 and nothing else changed.
ReplaceNaN(p) ==
  [shape |-> p.shape,
   data |-> [ix \in Idx(p.shape) |-> IF IsNaN(p.data[ix]) THEN Raw(0) ELSE p.data[ix]]]

NaNTreatedAsZero ==
  /\ Sanitized(pred) = ReplaceNaN(AxisCorrection(pred))
  /\ out = NormalizeStage(ReplaceNaN(pred))

\* C10 (as claimed): a prediction containing NaN gives the image the same array
\* with each NaN replaced by 0.0 gives, the other entries being unchanged.
C10_NaNIsZero ==
  (npc = "done" /\ HasNaN(pred)) => NaNTreatedAsZero

\* C10 (amended): the same, for predictions containing NaN and no infinity.
C10_NaNIsZeroWithoutInfinity ==
  (npc = "done" /\ HasNaN(pred) /\ \A v \in Elems(pred) : v.k \in {"nan", "fin"})
    => NaNTreatedAsZero

\* A NaN beside 0.5: the substituted zero makes the span 0.5 and maps to 0.
C10_Witness ==
  /\ npc = "done" /\ HasNaN(pred)
  /\ \A v \in Elems(pred) : v.k = "nan" \/ v = Raw(Unit \div 2)
  /\ \E ix, iy \in Idx(out.shape) :
       /\ IsNaN(AxisCorrection(pred).data[ix]) /\ out.data[ix] = 0
       /\ out.data[iy] = 255

====
